---------------------------- MODULE Spec2Model ----------------------------
(***************************************************************************)
(* Model of src/send_image_to_epaper.py: EPaperImageSender's conversion of *)
(* an image into the 4-bit frame buffer of the E6 panel.                   *)
(*                                                                         *)
(* The canvas keeps its real size (800x480).  An image is a record         *)
(* [size, px]: size is the real size, px holds the pixels of a small       *)
(* window of the image, Tracked(anchor); the other pixels are not          *)
(* represented.  The window is chosen so that what the code computes for   *)
(* the window's pixels does not depend on any pixel outside it:            *)
(*   - per-pixel loops (quantize_to_e6_palette, the snap loop of           *)
(*     pil_dither_to_e6, convert_to_e6_format) read one pixel (pair);      *)
(*   - floyd_steinberg_dither feeds a pixel from (x-1,y), (x-1,y-1),       *)
(*     (x,y-1) and (x+1,y-1).  The window is two rows, the lower one       *)
(*     shifted left by one, so every tracked pixel's feeders are tracked   *)
(*     or lie before the window.  For an anchor other than (0,0) the       *)
(*     pixels before the window, in its two rows and in the rows above,    *)
(*     are taken to be palette colours (they quantize with error 0 and     *)
(*     feed nothing).                                                      *)
(* Working values of the dither loop are Python floats; within the window  *)
(* they are dyadic rationals with denominator at most 16^PatchCols and are *)
(* exact in a double, so they are held as integers scaled by Scale.        *)
(***************************************************************************)
EXTENDS Integers, Sequences, FiniteSets, TLC

(* ------------------------- program constants -------------------------- *)
EPD_WIDTH == 800
EPD_HEIGHT == 480
EPD_BUFFER_SIZE == 192000
\* "if processed % 100 == 0": the clamp period of floyd_steinberg_dither
ClampPeriod == 100

(* ------------------------------ bounds -------------------------------- *)
\* columns of the tracked window in its upper row
PatchCols == 3

\* contrast / saturation factors in tenths (1.0, 1.5, 2.0)
Factors == {10, 15, 20}
ResizeArgs == {"fit", "fill", "stretch", "zoom"}
DitherArgs == {"none", "fast", "quality", "ordered"}
\* top-left corners of the tracked window
Anchors == {<<0, 0>>, <<98, 0>>, <<797, 478>>}

BLACK == <<0, 0, 0>>
WHITE == <<255, 255, 255>>
YELLOW == <<255, 255, 0>>
RED == <<255, 0, 0>>
BLUE == <<0, 0, 255>>
GREEN == <<0, 255, 0>>
CYAN == <<0, 255, 255>>
\* pixel values of the enumerated window contents
InputColours == {BLACK, RED, CYAN}

(* ------------------------------ helpers ------------------------------- *)
Max(a, b) == IF a > b THEN a ELSE b
Min(a, b) == IF a < b THEN a ELSE b

RECURSIVE Pow16(_)
Pow16(n) == IF n = 0 THEN 1 ELSE 16 * Pow16(n - 1)

\* working values are held as value * Scale
Scale == Pow16(PatchCols)

\* len(range(start, stop, step)) for step > 0
RangeLen(start, stop, step) ==
    IF stop <= start THEN 0 ELSE (stop - start + step - 1) \div step

EmptyPx == [p \in {} |-> BLACK]

(* ------------------------------ palette ------------------------------- *)
\* e6_palette: (code, rgb) in declaration order
e6_palette ==
    << <<0, BLACK>>, <<1, WHITE>>, <<2, YELLOW>>,
       <<3, RED>>, <<4, BLUE>>, <<5, GREEN>> >>

PaletteColours == {e6_palette[i][2] : i \in 1..Len(e6_palette)}

\* rgb_to_code = {}; for color_code, rgb in palette: rgb_to_code[rgb] = color_code
\* (a later entry of the same colour overwrites an earlier one)
rgb_to_code ==
    [c \in PaletteColours |->
        LET last == CHOOSE i \in 1..Len(e6_palette) :
                        /\ e6_palette[i][2] = c
                        /\ \A j \in 1..Len(e6_palette) :
                               e6_palette[j][2] = c => j <= i
        IN e6_palette[last][1]]

\* rgb_to_code.get(rgb, default)
DictGet(rgb, default) ==
    IF rgb \in DOMAIN rgb_to_code THEN rgb_to_code[rgb] ELSE default

(* ------------------------- tracked window ----------------------------- *)
Tracked(a) ==
    {<<x, a[2]>> : x \in a[1]..Min(EPD_WIDTH - 1, a[1] + PatchCols - 1)}
    \cup {<<x, a[2] + 1>> : x \in Max(0, a[1] - 1)..Min(EPD_WIDTH - 1, a[1] + PatchCols - 2)}

FullScenes(a) == [Tracked(a) -> InputColours]
UniformScenes(a) == {[p \in Tracked(a) |-> c] : c \in InputColours}

(* --------------------------- resize geometry --------------------------- *)
(* Sizes are small enough (sides up to 1601) for two different ratios to   *)
(* differ as doubles too, so the comparisons of ratios are decided on the  *)
(* exact cross products.                                                   *)
Sides == {1, 2, 75, 240, 400, 480, 481, 640, 800, 801, 960, 1600, 1601}
SourceSizes == Sides \X Sides

\* the size of the image of every run whose window contents are enumerated
ReferenceSize == <<EPD_WIDTH, EPD_HEIGHT>>

Abs(a) == IF a < 0 THEN -a ELSE a
Floor(num, den) == num \div den
Ceil(num, den) == (num + den - 1) \div den

\* Image.thumbnail, round_aspect(number, key) =
\*     max(min(math.floor(number), math.ceil(number), key=key), 1)
\* with number = num / den and le[a][b] saying key(a) <= key(b).  Where the
\* two keys are equal as exact numbers the doubles decide, either way.
RoundAspect(num, den, le) ==
    LET f == Floor(num, den)
        c == Ceil(num, den)
    IN {Max(n, 1) : n \in {m \in {f, c} : IF m = f THEN le[f][c] ELSE le[c][f]}}

\* img.thumbnail((EPD_WIDTH, EPD_HEIGHT), ...) of Pillow (Image.Resampling
\* needs 9.1 or later): the sizes img can have afterwards.
\*     x, y = size
\*     if x >= self.width and y >= self.height: return
\*     aspect = self.width / self.height
\*     if x / y >= aspect:
\*         x = round_aspect(y * aspect, key=lambda n: abs(aspect - n / y))
\*     else:
\*         y = round_aspect(x / aspect,
\*                          key=lambda n: 0 if n == 0 else abs(aspect - x / n))
ThumbnailSizes(w, h) ==
    IF EPD_WIDTH >= w /\ EPD_HEIGHT >= h THEN {<<w, h>>}
    ELSE IF EPD_WIDTH * h >= w * EPD_HEIGHT
    THEN LET num == EPD_HEIGHT * w
             cand == {Floor(num, h), Ceil(num, h)}
             le == [a \in cand |-> [b \in cand |->
                       Abs(num - a * h) <= Abs(num - b * h)]]
         IN {<<x, EPD_HEIGHT>> : x \in RoundAspect(num, h, le)}
    ELSE LET num == EPD_WIDTH * h
             cand == {Floor(num, w), Ceil(num, w)}
             key(n, other) == IF n = 0 THEN 0
                              ELSE Abs(w * n - num) * (IF other = 0 THEN 1 ELSE other)
             le == [a \in cand |-> [b \in cand |-> key(a, b) <= key(b, a)]]
         IN {<<EPD_WIDTH, y>> : y \in RoundAspect(num, w, le)}

\* lines 102-108: thumbnail, white canvas, paste at ((W - w') // 2, (H - h') // 2)
FitGeometry(w, h) ==
    {[branch |-> "fit", scaled |-> t,
      box |-> LET x == (EPD_WIDTH - t[1]) \div 2
                  y == (EPD_HEIGHT - t[2]) \div 2
              IN <<x, y, x + t[1], y + t[2]>>] : t \in ThumbnailSizes(w, h)}

\* int(v) of a double v computed as a product or quotient whose exact value
\* is num / den: the floor of it, or one less where the exact value is a
\* whole number and the double may fall just below it.
IntOfFloat(num, den) ==
    IF num % den = 0 THEN {num \div den, (num \div den) - 1} ELSE {num \div den}

\* line 86: img_ratio > display_ratio, with a source strictly wider than 5:3
FillWiderFlipped(w, h) == w * EPD_HEIGHT < EPD_WIDTH * h

FillWider(w, h) == w * EPD_HEIGHT > EPD_WIDTH * h

\* lines 90, 97
CropOffset(overflow) == overflow \div 2

\* lines 87-88 and 94-95: the size of temp_img.  For a source of exactly the
\* display's ratio img_ratio and display_ratio are the same double and
\* int(800 / (800 / 480)) is 480.
FillScaled(w, h) ==
    IF FillWider(w, h)
    THEN {<<n, EPD_HEIGHT>> : n \in IntOfFloat(EPD_HEIGHT * w, h)}
    ELSE IF w * EPD_HEIGHT = EPD_WIDTH * h
    THEN {<<EPD_WIDTH, EPD_HEIGHT>>}
    ELSE {<<EPD_WIDTH, n>> : n \in IntOfFloat(EPD_WIDTH * h, w)}

\* lines 81-99
FillGeometry(w, h) ==
    {[branch |-> "fill", scaled |-> t,
      box |-> IF FillWider(w, h)
              THEN LET left == CropOffset(t[1] - EPD_WIDTH)
                   IN <<left, 0, left + EPD_WIDTH, EPD_HEIGHT>>
              ELSE LET top == CropOffset(t[2] - EPD_HEIGHT)
                   IN <<0, top, EPD_WIDTH, top + EPD_HEIGHT>>] : t \in FillScaled(w, h)}

\* line 78
StretchGeometry ==
    {[branch |-> "stretch", scaled |-> <<EPD_WIDTH, EPD_HEIGHT>>,
      box |-> <<0, 0, EPD_WIDTH, EPD_HEIGHT>>]}

NoGeometry == [branch |-> "", scaled |-> <<0, 0>>, box |-> <<0, 0, 0, 0>>]

InBox(p, box) ==
    p[1] >= box[1] /\ p[1] < box[3] /\ p[2] >= box[2] /\ p[2] < box[4]

\* lines 105-108: the canvas is white outside the pasted thumbnail
Pasted(s, g) ==
    [p \in DOMAIN s |-> IF g.branch = "fit" /\ ~InBox(p, g.box) THEN WHITE ELSE s[p]]

(* ----------------------- nearest-colour search ------------------------ *)
PaletteIdx == 1..Len(e6_palette)

\* The search loop shared by the three quantizers:
\*     min_dist = inf; best = palette[0]
\*     for code, rgb in palette:
\*         if dist < min_dist: min_dist = dist; best = rgb
\* lt[i][j] says "dist of entry i < dist of entry j".  The first entry always
\* beats inf; a later entry replaces the best one only when strictly nearer.
RECURSIVE ScanLeastFrom(_, _, _)
ScanLeastFrom(lt, i, best) ==
    IF i > Len(e6_palette) THEN best
    ELSE ScanLeastFrom(lt, i + 1, IF lt[i][best] THEN i ELSE best)

\* a scan that replaces the best entry on "dist <= min_dist"
RECURSIVE ScanLeastFromLe(_, _, _)
ScanLeastFromLe(lt, i, best) ==
    IF i > Len(e6_palette) THEN best
    ELSE ScanLeastFromLe(lt, i + 1, IF ~lt[best][i] THEN i ELSE best)

NearestIndexLe(lt) == ScanLeastFromLe(lt, 2, 1)

\* a search whose comparison never succeeds: the first entry stays
NearestIndexFirst(lt) == 1

NearestIndex(lt) == ScanLeastFrom(lt, 2, 1)

Sq(a) == a * a

\* quantize_to_e6_palette: (0.299 dr^2 + 0.587 dg^2 + 0.114 db^2) ** 0.5.
\* The radicand times 1000; the square root is increasing, and on integer
\* pixels two radicands differ by at least 0.001 or not at all, so comparing
\* the radicands is comparing the distances.
WeightedDist(rgb, t) ==
    299 * Sq(rgb[1] - t[1]) + 587 * Sq(rgb[2] - t[2]) + 114 * Sq(rgb[3] - t[3])

WeightedLt(rgb) ==
    [i \in PaletteIdx |-> [j \in PaletteIdx |->
        WeightedDist(rgb, e6_palette[i][2]) < WeightedDist(rgb, e6_palette[j][2])]]

\* pil_dither_to_e6, snap loop: sum((a - b) ** 2 for a, b in zip(rgb, target_rgb))
SnapDist(rgb, t) == Sq(rgb[1] - t[1]) + Sq(rgb[2] - t[2]) + Sq(rgb[3] - t[3])

SnapLt(rgb) ==
    [i \in PaletteIdx |-> [j \in PaletteIdx |->
        SnapDist(rgb, e6_palette[i][2]) < SnapDist(rgb, e6_palette[j][2])]]

\* floyd_steinberg_dither: dist = (old_r - tr)**2 + (old_g - tg)**2 + (old_b - tb)**2
\* on a working value v = V / Scale.  The squares of scaled values do not fit
\* the checker's integers, so "dist_i < dist_j" is decided on the difference
\*     dist_i - dist_j = SUM_c (tj_c - ti_c) * (2 v_c - ti_c - tj_c),
\* divided by 255 / Scale: every palette channel is 0 or 255, so
\* (tj_c - ti_c) / 255 is -1, 0 or 1.
DistDiffTerm(V, ti, tj) ==
    ((tj - ti) \div 255) * (2 * V - Scale * (ti + tj))

DistDiff(v, ti, tj) ==
    DistDiffTerm(v[1], ti[1], tj[1]) + DistDiffTerm(v[2], ti[2], tj[2])
        + DistDiffTerm(v[3], ti[3], tj[3])

DitherLt(v) ==
    [i \in PaletteIdx |-> [j \in PaletteIdx |->
        DistDiff(v, e6_palette[i][2], e6_palette[j][2]) < 0]]

\* the palette entry (index) each quantizer picks for a colour
quantize_nearest(rgb) == NearestIndex(WeightedLt(rgb))
snap_nearest(rgb) == NearestIndex(SnapLt(rgb))
dither_nearest(v) == NearestIndex(DitherLt(v))

(* ------------------------------- state -------------------------------- *)
VARIABLES
    entry,          \* the method the caller invoked: "convert", "pack", "dither" or "pattern"
    pc,             \* position inside the call
    file,           \* image_path: "missing", "corrupt" or "image"
    img_size,       \* img.size after Image.open
    geom,           \* what the resize branch did: scaled size, paste or crop box
    fault,          \* what raised inside the try block: "none", "stage" or "debug_save"
    resize_mode, dither_mode, contrast, saturation, debug,   \* arguments
    anchor,         \* where the tracked window lies
    resized_img,    \* resized_img of convert_image_for_epaper
    enhanced_img,   \* enhanced_img
    pil_rgb,        \* pil_dither_to_e6: quantized = dithered.convert('RGB'), before the snap loop
    quantized_img,  \* quantized_img / the img handed to convert_to_e6_format
    stages,         \* the pipeline stages that have run, in order
    working,        \* floyd_steinberg_dither: working_data (scaled by Scale)
    old,            \* floyd_steinberg_dither: x, y, old_r, old_g, old_b of the last window pixel visited
    result,         \* floyd_steinberg_dither: result
    writes,         \* how often each pixel of the quantizer's output image was set
    pos,            \* floyd_steinberg_dither: (x, y) of the loops
    processed,      \* floyd_steinberg_dither: processed
    raw_data,       \* raw_data of convert_image_for_epaper
    missed,         \* pixels whose rgb_to_code.get(...) fell to its default
    ret             \* what the call returned

vars == << img_size, geom, fault, entry, pc, file, resize_mode, dither_mode, contrast, saturation,
           debug, anchor, resized_img, enhanced_img, pil_rgb, quantized_img,
           stages, working, old, result, writes, pos, processed, raw_data,
           missed, ret >>

CanvasSize == <<EPD_WIDTH, EPD_HEIGHT>>

NoImage == [size |-> <<0, 0>>, px |-> EmptyPx]
NoBytes == [i \in {} |-> 0]
NoData == [len |-> 0, at |-> NoBytes]
NoCounts == [p \in {} |-> 0]
NoOld == [p |-> <<-1, -1>>, v |-> <<0, 0, 0>>]

Pending == [kind |-> "pending", len |-> 0, at |-> NoBytes]
\* return None
None == [kind |-> "none", len |-> 0, at |-> NoBytes]
\* an exception leaving the method (convert_to_e6_format called directly)
Raised == [kind |-> "raised", len |-> 0, at |-> NoBytes]
ReturnBytes(data) == [kind |-> "bytes", len |-> data.len, at |-> data.at]
\* floyd_steinberg_dither called directly: return result
ReturnImage == [kind |-> "image", len |-> 0, at |-> NoBytes]

\* a handler that hands back an empty buffer instead of None
OnExceptionEmpty == [kind |-> "bytes", len |-> 0, at |-> NoBytes]

\* except Exception as e: ...; return None
OnException == None

(* The window contents the checker enumerates.  The pixels of the image    *)
(* that enters the repository's own loops come out of a library call       *)
(* (resize / crop / paste, ImageEnhance, Image.quantize): any content is   *)
(* possible.  All window contents over InputColours are enumerated for the *)
(* default arguments resize_mode = "fit", contrast = saturation = 1.0, and *)
(* the uniform ones for every other combination of arguments.              *)
ReferenceArgs == resize_mode = "fit" /\ contrast = 10 /\ saturation = 10

ResizedScenes(a) ==
    IF ReferenceArgs /\ dither_mode # "fast" /\ img_size = ReferenceSize
    THEN FullScenes(a) ELSE UniformScenes(a)

PilScenes(a) ==
    IF ReferenceArgs THEN FullScenes(a) ELSE UniformScenes(a)

CallerImages ==
    UNION {{[size |-> sz, px |-> s] : s \in FullScenes(a), sz \in {CanvasSize, <<400, 240>>}}
            : a \in Anchors}

InitConvert ==
    /\ entry = "convert"
    /\ pc = "open"
    /\ file \in {"missing", "corrupt", "image"}
    /\ resize_mode \in ResizeArgs
    /\ dither_mode \in DitherArgs
    /\ contrast \in Factors
    /\ saturation \in Factors
    /\ debug \in BOOLEAN
    /\ img_size \in IF /\ file = "image" /\ dither_mode = "none" /\ ~debug
                        /\ contrast = 10 /\ saturation = 10
                     THEN SourceSizes ELSE {ReferenceSize}
    /\ anchor = <<0, 0>>
    /\ quantized_img = NoImage

\* convert_to_e6_format(img, palette) called by its own
InitPack ==
    /\ entry = "pack"
    /\ pc = "pack"
    /\ file = "image"
    /\ resize_mode = "fit"
    /\ dither_mode = "none"
    /\ contrast = 10
    /\ saturation = 10
    /\ debug = FALSE
    /\ anchor \in Anchors
    /\ quantized_img \in CallerImages
    /\ DOMAIN quantized_img.px = Tracked(anchor)

\* floyd_steinberg_dither(img, palette) called by its own on a one-row image
RowSize == <<2, 1>>
RowImages ==
    {[size |-> RowSize, px |-> s] :
        s \in [{<<x, 0>> : x \in 0 .. RowSize[1] - 1} -> InputColours]}

InitDither ==
    /\ entry = "dither"
    /\ pc = "quantize"
    /\ file = "image"
    /\ resize_mode = "fit"
    /\ dither_mode = "quality"
    /\ contrast = 10
    /\ saturation = 10
    /\ debug = FALSE
    /\ anchor = <<0, 0>>
    /\ quantized_img = NoImage
    /\ enhanced_img \in RowImages

\* create_test_pattern() called
InitPattern ==
    /\ entry = "pattern"
    /\ pc = "pattern"
    /\ file = "image"
    /\ resize_mode = "fit"
    /\ dither_mode = "none"
    /\ contrast = 10
    /\ saturation = 10
    /\ debug = FALSE
    /\ anchor = <<0, 0>>
    /\ quantized_img = NoImage

Init ==
    /\ \/ InitConvert /\ enhanced_img = NoImage
       \/ InitPack /\ enhanced_img = NoImage
       \/ InitDither
       \/ InitPattern /\ enhanced_img = NoImage
    /\ entry \in {"pack", "dither", "pattern"} => img_size = ReferenceSize
    /\ geom = NoGeometry
    /\ fault = "none"
    /\ resized_img = NoImage
    /\ pil_rgb = NoImage
    /\ stages = <<>>
    /\ working = EmptyPx
    /\ old = NoOld
    /\ result = EmptyPx
    /\ writes = NoCounts
    /\ pos = <<0, 0>>
    /\ processed = 0
    /\ raw_data = NoData
    /\ missed = {}
    /\ ret = Pending

(* ---------------------- convert_image_for_epaper ---------------------- *)
\* lines 57-74: os.path.exists, Image.open, img.convert('RGB')
Open ==
    /\ entry = "convert" /\ pc = "open"
    /\ IF file = "missing" THEN /\ ret' = None
                                /\ pc' = "done"
       ELSE IF file = "corrupt" THEN /\ ret' = OnException
                                     /\ pc' = "done"
       ELSE /\ ret' = ret
            /\ pc' = "resize"
    /\ fault' = IF file = "corrupt" THEN "stage" ELSE fault
    /\ UNCHANGED << img_size, geom, entry, file, resize_mode, dither_mode, contrast, saturation,
                    debug, anchor, resized_img, enhanced_img, pil_rgb,
                    quantized_img, stages, working, old, result, writes, pos,
                    processed, raw_data, missed >>

\* the branch of lines 77-109 that runs for a resize_mode
ResizeBranch(mode) ==
    IF mode = "stretch" THEN "stretch"
    ELSE IF mode = "fill" THEN "fill"
    ELSE "fit"

\* the size of resized_img in each branch: img.resize((EPD_WIDTH, EPD_HEIGHT));
\* temp_img.crop((left, 0, left + EPD_WIDTH, EPD_HEIGHT)) or
\* temp_img.crop((0, top, EPD_WIDTH, top + EPD_HEIGHT)), whose size is the
\* box's, whatever left or top is; Image.new('RGB', (EPD_WIDTH, EPD_HEIGHT), 'white')
ResizedSize(branch) ==
    IF branch = "stretch" THEN <<EPD_WIDTH, EPD_HEIGHT>>
    ELSE IF branch = "fill" THEN <<EPD_WIDTH, EPD_HEIGHT>>
    ELSE <<EPD_WIDTH, EPD_HEIGHT>>

\* what the branch of a resize_mode does to an image of a size
Geometry(branch, size) ==
    IF branch = "stretch" THEN StretchGeometry
    ELSE IF branch = "fill" THEN FillGeometry(size[1], size[2])
    ELSE FitGeometry(size[1], size[2])

\* lines 76-115
Resize ==
    /\ entry = "convert" /\ pc = "resize"
    /\ \E a \in Anchors : \E s \in ResizedScenes(a) :
       \E g \in Geometry(ResizeBranch(resize_mode), img_size) :
         LET branch == ResizeBranch(resize_mode)
             img == [size |-> ResizedSize(branch), px |-> Pasted(s, g)]
         IN /\ stages' = Append(stages, branch)
            /\ anchor' = a
            /\ geom' = g
            /\ resized_img' = img
            /\ IF img.size # <<EPD_WIDTH, EPD_HEIGHT>>
               THEN ret' = None /\ pc' = "done"
               ELSE ret' = ret /\ pc' = "enhance"
    /\ UNCHANGED << img_size, fault, entry, file, resize_mode, dither_mode, contrast, saturation,
                    debug, enhanced_img, pil_rgb, quantized_img, working, old,
                    result, writes, pos, processed, raw_data, missed >>

\* enhancement with the brightness stage from a factor of 1.5 on
EnhanceStagesFrom15(c, s) ==
    (IF c # 10 THEN <<"contrast">> ELSE <<>>)
    \o (IF s # 10 THEN <<"saturation">> ELSE <<>>)
    \o (IF c >= 15 \/ s >= 15 THEN <<"brightness">> ELSE <<>>)

\* enhance_image: the stages that run, in order
EnhanceStages(c, s) ==
    (IF c # 10 THEN <<"contrast">> ELSE <<>>)
    \o (IF s # 10 THEN <<"saturation">> ELSE <<>>)
    \o (IF c > 15 \/ s > 15 THEN <<"brightness">> ELSE <<>>)

\* lines 117-127 and enhance_image
Enhance ==
    /\ entry = "convert" /\ pc = "enhance"
    /\ IF contrast # 10 \/ saturation # 10
       THEN /\ \E s \in UniformScenes(anchor) :
                 enhanced_img' = [size |-> resized_img.size, px |-> s]
            /\ stages' = stages \o EnhanceStages(contrast, saturation)
       ELSE /\ enhanced_img' = resized_img
            /\ stages' = stages
    /\ pc' = "quantize"
    /\ UNCHANGED << img_size, geom, fault, entry, file, resize_mode, dither_mode, contrast, saturation,
                    debug, anchor, resized_img, pil_rgb, quantized_img,
                    working, old, result, writes, pos, processed, raw_data,
                    missed, ret >>

(* ----------------------- quantize_to_e6_palette ----------------------- *)
\* lines 395-416: quantized_pixels[x, y] = best_color, for every pixel
\* a quantizer that copies the pixel instead of snapping it
quantize_pixel_copy(rgb) == rgb

quantize_pixel(rgb) == e6_palette[quantize_nearest(rgb)][2]

QuantizeNone ==
    /\ entry = "convert" /\ pc = "quantize"
    /\ dither_mode # "fast" /\ dither_mode # "quality"
    /\ quantized_img' =
          [size |-> enhanced_img.size,
           px |-> [p \in DOMAIN enhanced_img.px |-> quantize_pixel(enhanced_img.px[p])]]
    /\ writes' = [p \in DOMAIN enhanced_img.px |-> 1]
    /\ stages' = Append(stages, "quantize")
    /\ pc' = "pack"
    /\ UNCHANGED << img_size, geom, fault, entry, file, resize_mode, dither_mode, contrast, saturation,
                    debug, anchor, resized_img, enhanced_img, pil_rgb, working, old,
                    result, pos, processed, raw_data, missed, ret >>

(* -------------------------- pil_dither_to_e6 -------------------------- *)
\* lines 237-248: pixels[x, y] = best_color
snap_pixel(rgb) == e6_palette[snap_nearest(rgb)][2]

\* lines 208-273.  img.quantize(...).convert('RGB') is PIL's: any content.
PilDither ==
    /\ entry = "convert" /\ pc = "quantize"
    /\ dither_mode = "fast"
    /\ \E s \in PilScenes(anchor) :
         /\ pil_rgb' = [size |-> enhanced_img.size, px |-> s]
         /\ quantized_img' =
               [size |-> enhanced_img.size,
                px |-> [p \in DOMAIN s |-> snap_pixel(s[p])]]
         /\ writes' = [p \in DOMAIN s |-> 1]
    /\ stages' = Append(stages, "pil_dither")
    /\ pc' = "pack"
    /\ UNCHANGED << img_size, geom, fault, entry, file, resize_mode, dither_mode, contrast, saturation,
                    debug, anchor, resized_img, enhanced_img, working, old, result,
                    pos, processed, raw_data, missed, ret >>

(* ----------------------- floyd_steinberg_dither ----------------------- *)
Scaled(rgb) == <<Scale * rgb[1], Scale * rgb[2], Scale * rgb[3]>>

\* position of a pixel in the order of "for y in range(height): for x in range(width)"
Index(p, width) == p[2] * width + p[1]

\* lines 279-298: working copy (float(r), float(g), float(b)), result image
\* (Image.new('RGB', ...) is black), processed = 0
FSStart ==
    /\ entry \in {"convert", "dither"} /\ pc = "quantize"
    /\ dither_mode = "quality"
    /\ working' = [p \in DOMAIN enhanced_img.px |-> Scaled(enhanced_img.px[p])]
    /\ old' = NoOld
    /\ result' = [p \in DOMAIN enhanced_img.px |-> BLACK]
    /\ writes' = [p \in DOMAIN enhanced_img.px |-> 0]
    /\ pos' = <<0, 0>>
    /\ processed' = 0
    /\ stages' = Append(stages, "floyd_steinberg")
    /\ pc' = "fs"
    /\ UNCHANGED << img_size, geom, fault, entry, file, resize_mode, dither_mode, contrast, saturation,
                    debug, anchor, resized_img, enhanced_img, pil_rgb,
                    quantized_img, raw_data, missed, ret >>

\* shares with the right and the below neighbour exchanged
ShareSwapped(p, q, width, height) ==
    IF q = <<p[1] + 1, p[2]>> /\ p[1] + 1 < width THEN 5
    ELSE IF p[2] + 1 < height /\ q = <<p[1] - 1, p[2] + 1>> /\ p[1] > 0 THEN 3
    ELSE IF p[2] + 1 < height /\ q = <<p[1], p[2] + 1>> THEN 7
    ELSE IF p[2] + 1 < height /\ q = <<p[1] + 1, p[2] + 1>> /\ p[1] + 1 < width THEN 1
    ELSE 0

\* lines 336-354: sixteenths of the error of pixel p that are added to pixel q
Share(p, q, width, height) ==
    IF q = <<p[1] + 1, p[2]>> /\ p[1] + 1 < width THEN 7
    ELSE IF p[2] + 1 < height /\ q = <<p[1] - 1, p[2] + 1>> /\ p[1] > 0 THEN 3
    ELSE IF p[2] + 1 < height /\ q = <<p[1], p[2] + 1>> THEN 5
    ELSE IF p[2] + 1 < height /\ q = <<p[1] + 1, p[2] + 1>> /\ p[1] + 1 < width THEN 1
    ELSE 0

\* working_data[..][..][c] += err_c * share / 16.0
AddError(v, err, share) ==
    << v[1] + (err[1] * share) \div 16,
       v[2] + (err[2] * share) \div 16,
       v[3] + (err[3] * share) \div 16 >>

Diffuse(w, p, err, width, height) ==
    [q \in DOMAIN w |-> AddError(w[q], err, Share(p, q, width, height))]

\* max(0.0, min(255.0, v))
ClampChannel(v) == Max(0, Min(255 * Scale, v))
ClampPixel(v) == <<ClampChannel(v[1]), ClampChannel(v[2]), ClampChannel(v[3])>>

\* lines 358-359: for dy in range(max(0, y), min(height, y + 2)):
\*                    for dx in range(max(0, x - 1), min(width, x + 2)):
InClampBox(q, p, width, height) ==
    /\ q[2] >= Max(0, p[2]) /\ q[2] < Min(height, p[2] + 2)
    /\ q[1] >= Max(0, p[1] - 1) /\ q[1] < Min(width, p[1] + 2)

\* lines 356-363, "if processed % 100 == 0", with processed already incremented
ClampFires(n) == n % ClampPeriod = 0

ClampAround(w, p, n, width, height) ==
    [q \in DOMAIN w |->
        IF ClampFires(n) /\ InClampBox(q, p, width, height)
        THEN ClampPixel(w[q]) ELSE w[q]]

\* the loops' next (x, y)
NextPos(p, width) ==
    IF p[1] + 1 < width THEN <<p[1] + 1, p[2]>> ELSE <<0, p[2] + 1>>

\* lines 309-363, for a pixel of the window
FSStep ==
    /\ pc = "fs"
    /\ pos[2] < enhanced_img.size[2]
    /\ pos \in DOMAIN working
    /\ LET width == enhanced_img.size[1]
           height == enhanced_img.size[2]
           old_rgb == working[pos]
           best_color == e6_palette[dither_nearest(old_rgb)][2]
           err == << old_rgb[1] - Scale * best_color[1],
                     old_rgb[2] - Scale * best_color[2],
                     old_rgb[3] - Scale * best_color[3] >>
       IN /\ old' = [p |-> pos, v |-> old_rgb]
          /\ result' = [result EXCEPT ![pos] = best_color]
          /\ writes' = [writes EXCEPT ![pos] = @ + 1]
          /\ processed' = processed + 1
          /\ working' = ClampAround(Diffuse(working, pos, err, width, height),
                                    pos, processed + 1, width, height)
          /\ pos' = NextPos(pos, width)
    /\ UNCHANGED << img_size, geom, fault, entry, pc, file, resize_mode, dither_mode, contrast,
                    saturation, debug, anchor, resized_img, enhanced_img,
                    pil_rgb, quantized_img, stages, raw_data, missed, ret >>

\* the first window pixel at or after position n, or the end of the image
NextTracked(n, width, height) ==
    LET later == {Index(q, width) : q \in {t \in DOMAIN working : Index(t, width) >= n}}
    IN IF later = {} THEN width * height
       ELSE CHOOSE m \in later : \A k \in later : m <= k

\* whether the clamp of one of the pixels n0 .. n1-1 (not in the window) covers q
ClampedInRun(q, n0, n1, done, width, height) ==
    \E dx \in {-1, 0, 1} : \E dy \in {-1, 0} :
        LET s == <<q[1] + dx, q[2] + dy>>
            n == Index(s, width)
        IN /\ s[1] >= 0 /\ s[1] < width /\ s[2] >= 0
           /\ n >= n0 /\ n < n1
           /\ ClampFires(done + (n - n0) + 1)
           /\ InClampBox(q, s, width, height)

\* lines 309-363 for the pixels from pos up to the next window pixel.  They
\* feed no window pixel that is still to be visited (see the module's
\* head); their clamps may cover window pixels.
FSSkip ==
    /\ pc = "fs"
    /\ pos[2] < enhanced_img.size[2]
    /\ pos \notin DOMAIN working
    /\ LET width == enhanced_img.size[1]
           height == enhanced_img.size[2]
           n0 == Index(pos, width)
           n1 == NextTracked(n0, width, height)
       IN /\ processed' = processed + (n1 - n0)
          /\ pos' = <<n1 % width, n1 \div width>>
          /\ working' = [q \in DOMAIN working |->
                            IF ClampedInRun(q, n0, n1, processed, width, height)
                            THEN ClampPixel(working[q]) ELSE working[q]]
    /\ UNCHANGED << img_size, geom, fault, entry, pc, file, resize_mode, dither_mode, contrast,
                    saturation, debug, anchor, resized_img, enhanced_img,
                    pil_rgb, quantized_img, stages, old, result, writes,
                    raw_data, missed, ret >>

\* lines 365-381: return result.  Line 366 divides by total_time, the
\* difference of two time.time() readings: a call on a small image can
\* see 0.0 there (ZeroDivisionError); the 384000 pixels of a canvas take
\* longer than any clock's resolution.
FSFinish ==
    /\ pc = "fs"
    /\ pos[2] >= enhanced_img.size[2]
    /\ quantized_img' = [size |-> enhanced_img.size, px |-> result]
    /\ IF entry = "dither" THEN pc' = "done" /\ ret' \in {ReturnImage, Raised}
                            ELSE pc' = "pack" /\ ret' = ret
    /\ UNCHANGED << img_size, geom, fault, entry, file, resize_mode, dither_mode, contrast, saturation,
                    debug, anchor, resized_img, enhanced_img, pil_rgb, stages,
                    working, old, result, writes, pos, processed, raw_data,
                    missed >>

(* ------------------------ convert_to_e6_format ------------------------ *)
\* lines 452-461: the byte of the pixel pair that starts at p,
\* (color1 << 4) | color2 with both codes below 16
PackByteSwapped(px, p, width) ==
    LET color1 == DictGet(px[p], 0)
        color2 == IF p[1] + 1 < width THEN DictGet(px[<<p[1] + 1, p[2]>>], 1) ELSE 1
    IN (color2 * 16) + color1

PackByte(px, p, width) ==
    LET color1 == DictGet(px[p], 0)
        color2 == IF p[1] + 1 < width THEN DictGet(px[<<p[1] + 1, p[2]>>], 1) ELSE 1
    IN (color1 * 16) + color2

\* lines 450-451: the number of bytes appended before the pair at (x, y):
\* the rows before y in full, then the pairs before x
BytesBefore(p, width) ==
    p[2] * RangeLen(0, width, 2) + RangeLen(0, p[1], 2)

\* the window's pixel pairs: x in range(0, width, 2) with both pixels tracked
PairStarts(px, width) ==
    {p \in DOMAIN px : /\ p[1] % 2 = 0
                       /\ (p[1] + 1 < width => <<p[1] + 1, p[2]>> \in DOMAIN px)}

\* lines 449-463: raw_data after the loops (its length, and the window's bytes)
PackLoop(px, width, height) ==
    [len |-> height * RangeLen(0, width, 2),
     at |-> [i \in {BytesBefore(p, width) : p \in PairStarts(px, width)} |->
                LET p == CHOOSE q \in PairStarts(px, width) : BytesBefore(q, width) = i
                IN PackByte(px, p, width)]]

\* lines 433-471
convert_to_e6_format(img) ==
    LET width == img.size[1]
        height == img.size[2]
        data == PackLoop(img.px, width, height)
        expected_bytes == (EPD_WIDTH * EPD_HEIGHT) \div 2
    IN IF width # EPD_WIDTH \/ height # EPD_HEIGHT
       THEN [raised |-> TRUE, data |-> NoData, looked_up |-> FALSE]
       ELSE IF data.len # expected_bytes
       THEN [raised |-> TRUE, data |-> NoData, looked_up |-> TRUE]
       ELSE [raised |-> FALSE, data |-> data, looked_up |-> TRUE]

\* the call at line 148, or the method called by its own
Pack ==
    /\ pc = "pack"
    /\ LET out == convert_to_e6_format(quantized_img)
       IN /\ missed' = IF out.looked_up
                       THEN {p \in DOMAIN quantized_img.px :
                                quantized_img.px[p] \notin DOMAIN rgb_to_code}
                       ELSE {}
          /\ IF out.raised
             THEN /\ ret' = IF entry = "convert" THEN OnException ELSE Raised
                  /\ fault' = IF entry = "convert" THEN "stage" ELSE fault
                  /\ raw_data' = raw_data
                  /\ pc' = "done"
             ELSE IF entry = "convert"
             THEN /\ ret' = ret
                  /\ fault' = fault
                  /\ raw_data' = out.data
                  /\ pc' = "check"
             ELSE /\ ret' = ReturnBytes(out.data)
                  /\ fault' = fault
                  /\ raw_data' = out.data
                  /\ pc' = "done"
    /\ stages' = Append(stages, "pack")
    /\ UNCHANGED << img_size, geom, entry, file, resize_mode, dither_mode, contrast, saturation,
                    debug, anchor, resized_img, enhanced_img, pil_rgb,
                    quantized_img, working, old, result, writes, pos, processed >>

\* lines 150-161
Return ==
    /\ entry = "convert" /\ pc = "check"
    /\ ret' = IF raw_data.len # EPD_BUFFER_SIZE THEN None ELSE ReturnBytes(raw_data)
    /\ pc' = "done"
    /\ UNCHANGED << img_size, geom, fault, entry, file, resize_mode, dither_mode, contrast, saturation,
                    debug, anchor, resized_img, enhanced_img, pil_rgb,
                    quantized_img, stages, working, old, result, writes, pos,
                    processed, raw_data, missed >>

(* ------------------------- create_test_pattern ------------------------ *)
\* line 478
colors == <<0, 1, 2, 3, 4, 5>>

\* line 481: the rows of a band, and the last index of colors
BandRows == 80
LastBand == 5

\* a byte that carries the band's code in its low nibble only
PatternByteLowOnly(y) == colors[Min(y \div BandRows, LastBand) + 1]

\* lines 481-485: byte_value = (color << 4) | color for the bytes of row y
PatternByte(y) ==
    LET color_index == Min(y \div BandRows, LastBand)
        color == colors[color_index + 1]
    IN (color * 16) + color

\* lines 477-489: raw_data after the loops; byte i is appended in row
\* i // (EPD_WIDTH // 2)
create_test_pattern ==
    LET row_bytes == EPD_WIDTH \div 2
    IN [len |-> EPD_HEIGHT * row_bytes,
        at |-> [i \in 0 .. (EPD_HEIGHT * row_bytes) - 1 |-> PatternByte(i \div row_bytes)]]

\* the bytes of the returned buffer that the state keeps: the first and
\* the last byte of every row
PatternProbes ==
    {y * (EPD_WIDTH \div 2) + xb : y \in 0 .. EPD_HEIGHT - 1,
                                    xb \in {0, (EPD_WIDTH \div 2) - 1}}

CreateTestPattern ==
    /\ entry = "pattern" /\ pc = "pattern"
    /\ ret' = ReturnBytes([len |-> create_test_pattern.len,
                           at |-> [i \in PatternProbes |-> create_test_pattern.at[i]]])
    /\ pc' = "done"
    /\ UNCHANGED << img_size, geom, fault, entry, file, resize_mode,
                    dither_mode, contrast, saturation, debug, anchor,
                    resized_img, enhanced_img, pil_rgb, quantized_img, stages,
                    working, old, result, writes, pos, processed, raw_data,
                    missed >>

\* lines 163-167: a library call of the running stage raises (a decode
\* error, MemoryError, ...).  The dither loop itself calls no library.
Raise ==
    /\ entry = "convert"
    /\ pc \in {"resize", "enhance", "quantize", "pack"}
    /\ ret' = OnException
    /\ fault' = "stage"
    /\ pc' = "done"
    /\ UNCHANGED << img_size, geom, entry, file, resize_mode, dither_mode,
                    contrast, saturation, debug, anchor, resized_img,
                    enhanced_img, pil_rgb, quantized_img, stages, working,
                    old, result, writes, pos, processed, raw_data, missed >>

\* lines 163-167 after a debug save raised (OSError: the working directory
\* is not writable, the disk is full): enhanced_img.save of line 126 and of
\* enhance_image, reached once the enhancement is done; quantized.save of
\* lines 270 and 428 and result.save of line 378, reached once the
\* quantizer's loops are done.
RaiseDebugSave ==
    /\ entry = "convert"
    /\ debug
    /\ \/ pc = "quantize"
       \/ pc = "pack" /\ dither_mode # "quality"
       \/ pc = "fs" /\ pos[2] >= enhanced_img.size[2]
    /\ ret' = OnException
    /\ fault' = "debug_save"
    /\ pc' = "done"
    /\ UNCHANGED << img_size, geom, entry, file, resize_mode, dither_mode,
                    contrast, saturation, debug, anchor, resized_img,
                    enhanced_img, pil_rgb, quantized_img, stages, working,
                    old, result, writes, pos, processed, raw_data, missed >>

Next ==
    \/ Open
    \/ Resize
    \/ Enhance
    \/ QuantizeNone
    \/ PilDither
    \/ FSStart
    \/ FSStep
    \/ FSSkip
    \/ FSFinish
    \/ Pack
    \/ Return
    \/ Raise
    \/ RaiseDebugSave
    \/ CreateTestPattern

Spec == Init /\ [][Next]_vars

(* ============================== claims ================================ *)
Quantized == entry \in {"convert", "dither"} /\ DOMAIN quantized_img.px # {}

\* the palette entry (index) whose colour is c
EntryOf(c) == CHOOSE i \in PaletteIdx : e6_palette[i][2] = c

\* entry k is at minimal distance and every entry declared before it is
\* strictly farther
EarliestNearest(lt, k) ==
    /\ \A j \in PaletteIdx : ~lt[j][k]
    /\ \A j \in PaletteIdx : j < k => lt[k][j]

\* two entries tie at the minimal distance
TieAtMin(lt) ==
    \E i, j \in PaletteIdx :
        /\ i # j /\ ~lt[i][j] /\ ~lt[j][i]
        /\ \A k \in PaletteIdx : ~lt[k][i]

\* C1: convert_image_for_epaper returns None or a buffer of exactly
\* ceil(W/2)*H = 192000 bytes, never a buffer of another length, whichever
\* stage fails.
C1_NoneOrFullBuffer ==
    entry = "convert" =>
        /\ pc = "done" <=> ret.kind # "pending"
        /\ \/ ret.kind \in {"pending", "none"}
           \/ /\ ret.kind = "bytes"
              /\ ret.len = ((EPD_WIDTH + 1) \div 2) * EPD_HEIGHT
              /\ ret.len = 192000

C1_Witness ==
    /\ entry = "convert" /\ pc = "done"
    /\ ret.kind = "bytes" /\ ret.len = 192000
    /\ dither_mode = "quality" /\ debug

\* C2: the packer emits bytes row-major; for every row y and even column x
\* the byte at index y*(W/2) + x/2 holds the code of pixel (x,y) in its high
\* nibble and the code of pixel (x+1,y) in its low nibble.
C2_RowMajorNibbles ==
    (raw_data.len > 0) =>
        \A p \in DOMAIN quantized_img.px :
            LET q == <<p[1] + 1, p[2]>>
                i == p[2] * (EPD_WIDTH \div 2) + (p[1] \div 2)
            IN (/\ p[1] % 2 = 0
                /\ q \in DOMAIN quantized_img.px
                /\ quantized_img.px[p] \in PaletteColours
                /\ quantized_img.px[q] \in PaletteColours)
               => /\ i \in DOMAIN raw_data.at
                  /\ raw_data.at[i] \div 16 = e6_palette[EntryOf(quantized_img.px[p])][1]
                  /\ raw_data.at[i] % 16 = e6_palette[EntryOf(quantized_img.px[q])][1]

C2_Witness ==
    /\ entry = "convert" /\ pc = "done" /\ ret.kind = "bytes"
    /\ \E i \in DOMAIN ret.at :
          /\ i >= EPD_WIDTH \div 2
          /\ ret.at[i] \div 16 # ret.at[i] % 16
          /\ ret.at[i] \div 16 # 0

\* C3: in each of the three nearest-colour searches, among the palette
\* entries at the minimal distance the one declared first is chosen.
C3_EarliestEntryWins ==
    /\ (Quantized /\ "quantize" \in {stages[i] : i \in DOMAIN stages}) =>
          \A p \in DOMAIN quantized_img.px :
              EarliestNearest(WeightedLt(enhanced_img.px[p]), EntryOf(quantized_img.px[p]))
    /\ (Quantized /\ "pil_dither" \in {stages[i] : i \in DOMAIN stages}) =>
          \A p \in DOMAIN quantized_img.px :
              EarliestNearest(SnapLt(pil_rgb.px[p]), EntryOf(quantized_img.px[p]))
    /\ (old.p \in DOMAIN result) =>
          EarliestNearest(DitherLt(old.v), EntryOf(result[old.p]))

C3_Witness ==
    /\ pc = "fs" /\ old.p \in DOMAIN result
    /\ old.v = Scaled(CYAN)
    /\ TieAtMin(DitherLt(old.v))
    /\ result[old.p] = WHITE
Ran(stage) == stage \in {stages[i] : i \in DOMAIN stages}

\* C4 (as stated): in no-dither and in quality mode every pixel of the image
\* entering quantization that is exactly a palette colour is output with
\* that colour, whatever the other pixels are.
C4_ExactMatchEveryMode ==
    (Quantized /\ (Ran("quantize") \/ Ran("floyd_steinberg"))) =>
        \A p \in DOMAIN quantized_img.px :
            enhanced_img.px[p] \in PaletteColours
                => quantized_img.px[p] = enhanced_img.px[p]

\* C4 (amended): a colour handed to a nearest-colour search that is exactly a
\* palette colour gets that colour: every pixel in no-dither mode, every
\* pixel of PIL's output in the fast snap loop, and in quality mode every
\* pixel whose working value at its visit is exactly a palette colour; a
\* quality-mode image all of whose pixels are palette colours is output
\* unchanged.
C4_ExactMatchAtSearch ==
    /\ (Quantized /\ Ran("quantize")) =>
          \A p \in DOMAIN quantized_img.px :
              enhanced_img.px[p] \in PaletteColours
                  => quantized_img.px[p] = enhanced_img.px[p]
    /\ (Quantized /\ Ran("pil_dither")) =>
          \A p \in DOMAIN quantized_img.px :
              pil_rgb.px[p] \in PaletteColours
                  => quantized_img.px[p] = pil_rgb.px[p]
    /\ (old.p \in DOMAIN result) =>
          \A c \in PaletteColours :
              old.v = Scaled(c) => result[old.p] = c
    /\ (Quantized /\ Ran("floyd_steinberg")
          /\ \A p \in DOMAIN enhanced_img.px : enhanced_img.px[p] \in PaletteColours)
          => quantized_img.px = enhanced_img.px

C4_Witness ==
    /\ entry = "convert" /\ pc = "pack" /\ Ran("floyd_steinberg")
    /\ anchor = <<98, 0>>
    /\ \A p \in DOMAIN enhanced_img.px : enhanced_img.px[p] \in PaletteColours
    /\ enhanced_img.px[<<98, 0>>] = RED
    /\ enhanced_img.px[<<99, 0>>] = BLACK
    /\ quantized_img.px = enhanced_img.px

\* C5 (as stated): the entry the dither loop chooses for a colour is the
\* entry quantize_to_e6_palette chooses for the same colour.
C5_SameMetricAsQuantizer ==
    (/\ old.p \in DOMAIN result
     /\ \A c \in 1 .. 3 : old.v[c] % Scale = 0 /\ old.v[c] \div Scale \in 0 .. 255)
        => result[old.p] =
              quantize_pixel(<<old.v[1] \div Scale, old.v[2] \div Scale, old.v[3] \div Scale>>)

\* C6 (as stated): every channel of a working pixel is within [0, 255] when
\* the pixel is visited and quantized.
C6_ClampedAtVisit ==
    (old.p \in DOMAIN result) =>
        \A c \in 1 .. 3 : old.v[c] >= 0 /\ old.v[c] <= 255 * Scale

\* sixteenths of the error of pixel p that the claim gives pixel q
SixteenthsOf(p, q) ==
    IF q = <<p[1] + 1, p[2]>> THEN 7
    ELSE IF q = <<p[1] - 1, p[2] + 1>> THEN 3
    ELSE IF q = <<p[1], p[2] + 1>> THEN 5
    ELSE IF q = <<p[1] + 1, p[2] + 1>> THEN 1
    ELSE 0

\* C7: pixels are visited in row-major order; the visit of (x,y) with error
\* e = working value - chosen colour adds 7/16 e to (x+1,y), 3/16 e to
\* (x-1,y+1), 5/16 e to (x,y+1), 1/16 e to (x+1,y+1) and nothing to any
\* other pixel (none across the image's edge, none to a visited pixel, and
\* from the last or only row to the right neighbour alone); the periodic
\* clamp is the only other change of a working value.
C7_RowMajorDiffusion ==
    [][ (pc = "fs" /\ writes' # writes) =>
          LET width == enhanced_img.size[1]
              height == enhanced_img.size[2]
              e == [c \in 1 .. 3 |-> old'.v[c] - Scale * result'[pos][c]]
          IN /\ pos[1] \in 0 .. width - 1 /\ pos[2] \in 0 .. height - 1
             /\ processed = pos[2] * width + pos[1]
             /\ processed' = processed + 1
             /\ pos' = IF pos[1] = width - 1 THEN <<0, pos[2] + 1>>
                                             ELSE <<pos[1] + 1, pos[2]>>
             /\ old'.p = pos /\ old'.v = working[pos]
             /\ \A q \in DOMAIN writes :
                   writes'[q] = IF q = pos THEN 1 ELSE writes[q]
             /\ \A q \in DOMAIN working : \A c \in 1 .. 3 :
                   LET expected == 16 * working[q][c] + SixteenthsOf(pos, q) * e[c]
                       clamped == Max(0, Min(16 * 255 * Scale, expected))
                   IN /\ writes[q] > 0 => SixteenthsOf(pos, q) = 0
                      /\ \/ 16 * working'[q][c] = expected
                         \/ /\ processed' % ClampPeriod = 0
                            /\ 16 * working'[q][c] = clamped
        ]_vars

C7_Witness ==
    /\ pc = "fs" /\ old.p = <<98, 0>> /\ pos = <<99, 0>>
    /\ old.v # Scaled(result[old.p])
    /\ \A q \in {<<99, 0>>, <<97, 1>>, <<98, 1>>, <<99, 1>>} :
          q \in DOMAIN working /\ working[q] # Scaled(enhanced_img.px[q])

\* C8: every pixel of the image a quantizer returns is one of the six
\* palette colours and was written exactly once (at most once while the
\* dither loop runs), and in the pipeline no lookup of the packer misses.
C8_OutputIsPalette ==
    /\ Quantized =>
          \A p \in DOMAIN quantized_img.px :
              quantized_img.px[p] \in PaletteColours /\ writes[p] = 1
    /\ (pc = "fs") =>
          \A p \in DOMAIN result :
              /\ writes[p] \in {0, 1}
              /\ writes[p] = 1 => result[p] \in PaletteColours
    /\ (entry = "convert") => missed = {}

C8_Witness ==
    /\ entry = "convert" /\ pc = "check" /\ Ran("floyd_steinberg")
    /\ \E p \in DOMAIN enhanced_img.px : enhanced_img.px[p] = CYAN
    /\ raw_data.len = EPD_BUFFER_SIZE

\* C9 (as stated): a packing run that met a pixel with no exact match in the
\* palette does not end like a normal run, with a buffer.
C9_MissIsSurfaced ==
    (pc = "done" /\ missed # {}) => ret.kind # "bytes"

\* C10 (as stated): with a resize mode outside {fit, fill, stretch} or a
\* dither mode outside {none, fast, quality} no pipeline stage runs and no
\* buffer is returned.
C10_UnknownModeRejected ==
    (/\ entry = "convert"
     /\ \/ resize_mode \notin {"fit", "fill", "stretch"}
        \/ dither_mode \notin {"none", "fast", "quality"})
        => stages = <<>> /\ ret.kind # "bytes"
\* the parts of C11 other than the border: the thumbnail is no larger than
\* the source and than the canvas, keeps the ratio to within a pixel, is
\* pasted at ((W - w') // 2, (H - h') // 2) >= 0 on a white canvas of WxH
FitCanvas ==
    LET w == img_size[1]
        h == img_size[2]
        t == geom.scaled
        x == geom.box[1]
        y == geom.box[2]
    IN /\ t[1] >= 1 /\ t[2] >= 1
       /\ t[1] <= w /\ t[2] <= h
       /\ t[1] <= EPD_WIDTH /\ t[2] <= EPD_HEIGHT
       /\ Abs(t[1] * h - t[2] * w) <= Max(w, h)
       /\ x = (EPD_WIDTH - t[1]) \div 2 /\ y = (EPD_HEIGHT - t[2]) \div 2
       /\ x >= 0 /\ y >= 0
       /\ geom.box = <<x, y, x + t[1], y + t[2]>>
       /\ resized_img.size = <<EPD_WIDTH, EPD_HEIGHT>>
       /\ \A p \in DOMAIN resized_img.px :
             ~InBox(p, geom.box) => resized_img.px[p] = WHITE

\* a full row or column of the canvas lies outside the pasted area
HasBorder ==
    \/ geom.box[1] > 0 \/ geom.box[3] < EPD_WIDTH
    \/ geom.box[2] > 0 \/ geom.box[4] < EPD_HEIGHT

\* C11 (as stated): in fit mode the source is scaled down, never up, keeping
\* its ratio, and pasted centred on a white WxH canvas; whenever the
\* source's ratio differs from W/H a white border is present.
C11_FitCanvasAndBorder ==
    (entry = "convert" /\ geom.branch = "fit") =>
        /\ FitCanvas
        /\ img_size[1] * EPD_HEIGHT # EPD_WIDTH * img_size[2] => HasBorder

\* C12: in fill mode the scaled image covers the canvas with one side equal
\* to the canvas's (the height for a source wider than W:H, else the
\* width), the crop offset on the overflowing axis is floor(overflow / 2),
\* the crop box lies inside the scaled image and the result is WxH.
C12_FillCoversAndCrops ==
    (entry = "convert" /\ geom.branch = "fill") =>
        LET w == img_size[1]
            h == img_size[2]
            t == geom.scaled
            box == geom.box
        IN /\ t[1] >= EPD_WIDTH /\ t[2] >= EPD_HEIGHT
           /\ IF w * EPD_HEIGHT > EPD_WIDTH * h THEN t[2] = EPD_HEIGHT
                                                ELSE t[1] = EPD_WIDTH
           /\ box[1] = (t[1] - EPD_WIDTH) \div 2
           /\ box[2] = (t[2] - EPD_HEIGHT) \div 2
           /\ box[1] >= 0 /\ box[2] >= 0 /\ box[3] <= t[1] /\ box[4] <= t[2]
           /\ box[3] - box[1] = EPD_WIDTH /\ box[4] - box[2] = EPD_HEIGHT
           /\ resized_img.size = <<EPD_WIDTH, EPD_HEIGHT>>

C12_Witness ==
    /\ entry = "convert" /\ pc = "done" /\ ret.kind = "bytes"
    /\ geom.branch = "fill"
    /\ img_size = <<1601, 480>>
    /\ geom.scaled = <<1601, 480>>
    /\ geom.box = <<400, 0, 1200, 480>>

\* C13 (as stated): the result does not depend on the debug flag: a run in
\* which no pipeline stage fails on an existing image returns the buffer,
\* with debug set as without.
C13_DebugNeverChangesResult ==
    (entry = "convert" /\ pc = "done" /\ file = "image" /\ fault # "stage") =>
        /\ ret.kind = "bytes"
        /\ ret = ReturnBytes(raw_data)

\* the enhancement stages that have run, in order
EnhanceRan == SelectSeq(stages, LAMBDA st : st \in {"contrast", "saturation", "brightness"})

\* C14: the enhancement stages run in the order contrast, saturation,
\* brightness, each at most once, after the resize and before the
\* quantizer: contrast iff contrast # 1.0, saturation iff saturation # 1.0,
\* brightness iff contrast > 1.5 or saturation > 1.5; with both factors 1.0
\* none runs and the resized image goes to quantization unchanged.
C14_EnhanceOrder ==
    (entry = "convert" /\ pc \in {"quantize", "fs", "pack", "check"}) =>
        /\ EnhanceRan =
              (IF contrast = 10 THEN <<>> ELSE <<"contrast">>)
              \o (IF saturation = 10 THEN <<>> ELSE <<"saturation">>)
              \o (IF contrast > 15 \/ saturation > 15 THEN <<"brightness">> ELSE <<>>)
        /\ \A i \in DOMAIN stages :
              stages[i] \in {"contrast", "saturation", "brightness"} =>
                 /\ i > 1
                 /\ \A j \in DOMAIN stages :
                       stages[j] \in {"quantize", "pil_dither", "floyd_steinberg", "pack"}
                           => i < j
        /\ (contrast = 10 /\ saturation = 10) =>
              EnhanceRan = <<>> /\ enhanced_img = resized_img

C14_Witness ==
    /\ entry = "convert" /\ pc = "check"
    /\ contrast = 15 /\ saturation = 20
    /\ stages = <<"fill", "contrast", "saturation", "brightness", "quantize", "pack">>

\* C15: create_test_pattern returns W*H/2 = 192000 bytes; every byte of
\* row y has both nibbles equal to the code of palette entry
\* min(y // 80, 5), so each of the six codes fills exactly 80 consecutive
\* full rows in palette order and no other nibble occurs.
C15_TestPatternBands ==
    (entry = "pattern" /\ pc = "done") =>
        LET row_bytes == EPD_WIDTH \div 2
            data == create_test_pattern
            \* the rows that start with a byte of a code (by the conjunct
            \* on every byte, such a row holds that byte throughout)
            RowsOf(code) ==
                {y \in 0 .. EPD_HEIGHT - 1 : data.at[y * row_bytes] = code * 16 + code}
        IN /\ ret.kind = "bytes"
           /\ ret.len = data.len
           /\ \A i \in DOMAIN ret.at : ret.at[i] = data.at[i]
           /\ data.len = (EPD_WIDTH * EPD_HEIGHT) \div 2
           /\ data.len = 192000
           /\ DOMAIN data.at = 0 .. data.len - 1
           /\ \A y \in 0 .. EPD_HEIGHT - 1 : \A xb \in 0 .. row_bytes - 1 :
                 data.at[y * row_bytes + xb] =
                     16 * e6_palette[Min(y \div 80, 5) + 1][1]
                     + e6_palette[Min(y \div 80, 5) + 1][1]
           /\ \A k \in 0 .. 5 :
                 RowsOf(e6_palette[k + 1][1]) = (80 * k) .. (80 * k + 79)

C15_Witness ==
    /\ entry = "pattern" /\ pc = "done" /\ ret.kind = "bytes"
    /\ ret.at[0] = 0
    /\ ret.at[80 * 400 - 1] = 0
    /\ ret.at[80 * 400] = 17
    /\ ret.at[191999] = 85

=============================================================================
